---------------------------- MODULE Spec2Model ----------------------------
(***************************************************************************)
(* Model of carrier_api/status.py: construction of a Status (with its      *)
(* StatusZone, StatusODU and StatusIDU parts) from a decoded JSON payload, *)
(* and the properties mode_const, zone_conditioning_const and __repr__.    *)
(*                                                                         *)
(* Values (decoded JSON and Python objects alike) are tagged records:      *)
(*   [k |-> "None"]                 JSON null / Python None                *)
(*   [k |-> "str",   s |-> "on"]    a string                               *)
(*   [k |-> "int",   n |-> 3]       an int                                 *)
(*   [k |-> "float", n |-> 3]       the float 3.0                          *)
(*   [k |-> "bool",  b |-> TRUE]    a bool                                 *)
(*   [k |-> "dict",  m |-> f]       a mapping, f a function on its keys    *)
(*   [k |-> "list",  q |-> <<..>>]  a sequence                             *)
(*   [k |-> "enum",  cls |-> C, s |-> v]   a member of enum C, value v     *)
(*   [k |-> "datetime", s |-> t]    a parsed timestamp                     *)
(* An absent key is a key outside the DOMAIN of the mapping.               *)
(***************************************************************************)
EXTENDS Integers, Sequences, FiniteSets, TLC

VARIABLES raw, pc, self, exc, reads, ret

vars == <<raw, pc, self, exc, reads, ret>>

-----------------------------------------------------------------------------
(* Values *)

None == [k |-> "None"]

StrV(x) == [k |-> "str", s |-> x]

IntV(i) == [k |-> "int", n |-> i]

FloatV(i) == [k |-> "float", n |-> i]

BoolV(x) == [k |-> "bool", b |-> x]

Dict(f) == [k |-> "dict", m |-> f]

List(sq) == [k |-> "list", q |-> sq]

Enum(c, x) == [k |-> "enum", cls |-> c, s |-> x]

DateTime(x) == [k |-> "datetime", s |-> x]

EmptyDict == [x \in {} |-> None]

(* Outcome of an expression: a value, or the exception it raises. *)
NoExc == [type |-> "", arg |-> ""]

Return(v) == [exc |-> NoExc, v |-> v]

Raise(t, a) == [exc |-> [type |-> t, arg |-> a], v |-> None]

(* The decimal literals that occur in the payloads, and their values. *)
NumLit == ("0" :> 0) @@ ("50" :> 50) @@ ("72" :> 72) @@ ("350" :> 350)

(* repr() of a value, as the argument of an exception message. *)
Show(v) ==
  CASE v.k = "str" -> v.s
    [] v.k = "None" -> "None"
    [] v.k = "bool" -> (IF v.b THEN "True" ELSE "False")
    [] v.k \in {"int", "float"} ->
         (IF \E l \in DOMAIN NumLit : NumLit[l] = v.n
          THEN CHOOSE l \in DOMAIN NumLit : NumLit[l] = v.n ELSE "<number>")
    [] v.k = "dict" -> "{...}"
    [] v.k = "list" -> "[...]"
    [] OTHER -> "<object>"

-----------------------------------------------------------------------------
(* Python's built-in conversions, used as callable_to_cast *)

PyFloat(v) ==
  CASE v.k = "str" -> (IF v.s \in DOMAIN NumLit THEN Return(FloatV(NumLit[v.s]))
                       ELSE Raise("ValueError", v.s))
    [] v.k = "int" -> Return(FloatV(v.n))
    [] v.k = "float" -> Return(v)
    [] v.k = "bool" -> Return(FloatV(IF v.b THEN 1 ELSE 0))
    [] OTHER -> Raise("TypeError", Show(v))

PyInt(v) ==
  CASE v.k = "str" -> (IF v.s \in DOMAIN NumLit THEN Return(IntV(NumLit[v.s]))
                       ELSE Raise("ValueError", v.s))
    [] v.k = "int" -> Return(v)
    [] v.k = "float" -> Return(IntV(v.n))
    [] v.k = "bool" -> Return(IntV(IF v.b THEN 1 ELSE 0))
    [] OTHER -> Raise("TypeError", Show(v))

PyStr(v) == Return(StrV(Show(v)))

PyBool(v) ==
  CASE v.k = "str" -> Return(BoolV(v.s # ""))
    [] v.k \in {"int", "float"} -> Return(BoolV(v.n # 0))
    [] v.k = "bool" -> Return(v)
    [] v.k = "None" -> Return(BoolV(FALSE))
    [] v.k = "dict" -> Return(BoolV(DOMAIN v.m # {}))
    [] v.k = "list" -> Return(BoolV(Len(v.q) > 0))
    [] OTHER -> Return(BoolV(TRUE))

Cast(type, v) ==
  CASE type = "float" -> PyFloat(v)
    [] type = "int" -> PyInt(v)
    [] type = "str" -> PyStr(v)
    [] type = "bool" -> PyBool(v)
    [] OTHER -> Return(v)

-----------------------------------------------------------------------------
(* util.safely_get_json_value: the dotted path is given as its segments. *)

RECURSIVE Descend(_, _)
Descend(v, path) ==
  IF path = <<>> THEN v
  ELSE IF v.k = "dict" /\ Head(path) \in DOMAIN v.m
       THEN Descend(v.m[Head(path)], Tail(path))
       ELSE None

safely_get_json_value(json, path, type) ==
  LET value == Descend(json, path)
  IN  IF type # "" /\ value # None THEN Cast(type, value) ELSE Return(value)

(* d[key]: KeyError on a missing key, TypeError on a non-mapping. *)
Subscript(d, key) ==
  IF d.k # "dict" THEN Raise("TypeError", Show(d))
  ELSE IF key \in DOMAIN d.m THEN Return(d.m[key])
  ELSE Raise("KeyError", key)

(* d.get(key, default) *)
DictGet(d, key, default) == IF key \in DOMAIN d.m THEN d.m[key] ELSE default

-----------------------------------------------------------------------------
(* const: the closed vocabularies *)

EnumValues(cls) ==
  CASE cls = "TemperatureUnits" -> {"C", "F"}
    [] cls = "FanModes" -> {"off", "low", "med", "high"}
    [] cls = "ActivityTypes" ->
         {"home", "away", "sleep", "wake", "manual", "vacation"}
    [] cls = "SystemModes" -> {"off", "cool", "heat", "auto", "fanonly"}

(* cls(value): the member with that value, else ValueError. *)
EnumCall(cls, v) ==
  IF v.k = "str" /\ v.s \in EnumValues(cls) THEN Return(Enum(cls, v.s))
  ELSE Raise("ValueError", Show(v))

HEAT == Enum("SystemModes", "heat")

COOL == Enum("SystemModes", "cool")

OFF == Enum("SystemModes", "off")

(* dateutil.parser.isoparse *)
IsoStrings == {"2024-01-01T00:00:00Z"}

isoparse(v) ==
  IF v.k # "str" THEN Raise("TypeError", Show(v))
  ELSE IF v.s \in IsoStrings THEN Return(DateTime(v.s))
  ELSE Raise("ValueError", v.s)

-----------------------------------------------------------------------------
(* Constructor statements.  A statement is                                  *)
(*   [kind, attr, path, type, lit]                                          *)
(* kind "get":  self.attr = safely_get_json_value(json, path, type)         *)
(* kind "eq":   self.attr = safely_get_json_value(json, path) == lit        *)
(* kind "enum": self.attr = type(json[path[1]])                             *)

Get(attr, path, type) ==
  [kind |-> "get", attr |-> attr, path |-> path, type |-> type, lit |-> ""]

Eq(attr, path, lit) ==
  [kind |-> "eq", attr |-> attr, path |-> path, type |-> "", lit |-> lit]

EnumOf(attr, key, cls) ==
  [kind |-> "enum", attr |-> attr, path |-> <<key>>, type |-> cls, lit |-> ""]

Other(kind, attr, path) ==
  [kind |-> kind, attr |-> attr, path |-> path, type |-> "", lit |-> ""]

(* The right-hand side of a get, eq or enum statement. *)
Eval(st, json) ==
  CASE st.kind = "get" -> safely_get_json_value(json, st.path, st.type)
    [] st.kind = "eq" ->
         Return(BoolV(safely_get_json_value(json, st.path, "").v = StrV(st.lit)))
    [] st.kind = "enum" ->
         LET item == Subscript(json, st.path[1])
         IN  IF item.exc # NoExc THEN item ELSE EnumCall(st.type, item.v)

SetAttr(obj, attr, v) == (attr :> v) @@ obj

(* Runs the statements in order on obj; the first exception ends it. *)
RECURSIVE BuildObj(_, _, _)
BuildObj(stmts, json, obj) ==
  IF stmts = <<>> THEN Return(obj)
  ELSE LET r == Eval(Head(stmts), json)
       IN  IF r.exc # NoExc THEN r
           ELSE BuildObj(Tail(stmts), json, SetAttr(obj, Head(stmts).attr, r.v))

-----------------------------------------------------------------------------
(* StatusZone *)

(* StatusZoneStmts with fan read like an optional field. *)
StatusZoneStmtsFanOptional ==
  << Get("api_id", <<"id">>, "str"),
     Get("name", <<"name">>, ""),
     EnumOf("current_activity", "currentActivity", "ActivityTypes"),
     Get("temperature", <<"rt">>, "float"),
     Get("humidity", <<"rh">>, "int"),
     Eq("occupancy", <<"occupancy">>, "occupied"),
     Get("fan", <<"fan">>, ""),
     Eq("hold", <<"hold">>, "on"),
     Get("hold_until", <<"otmr">>, ""),
     Get("heat_set_point", <<"htsp">>, "float"),
     Get("cool_set_point", <<"clsp">>, "float"),
     Get("conditioning", <<"zoneconditioning">>, "") >>

StatusZoneStmts ==
  << Get("api_id", <<"id">>, "str"),
     Get("name", <<"name">>, ""),
     EnumOf("current_activity", "currentActivity", "ActivityTypes"),
     Get("temperature", <<"rt">>, "float"),
     Get("humidity", <<"rh">>, "int"),
     Eq("occupancy", <<"occupancy">>, "occupied"),
     EnumOf("fan", "fan", "FanModes"),
     Eq("hold", <<"hold">>, "on"),
     Get("hold_until", <<"otmr">>, ""),
     Get("heat_set_point", <<"htsp">>, "float"),
     Get("cool_set_point", <<"clsp">>, "float"),
     Get("conditioning", <<"zoneconditioning">>, "") >>

StatusZone(status_zone_json) ==
  BuildObj(StatusZoneStmts, status_zone_json, EmptyDict)

(* zone_conditioning_const with OFF as the default instead of the raise. *)
zone_conditioning_constDefaultOff(zone) ==
  CASE zone["conditioning"] \in
         {StrV("active_heat"), StrV("prep_heat"), StrV("pending_heat")} ->
         Return(HEAT)
    [] zone["conditioning"] \in
         {StrV("active_cool"), StrV("prep_cool"), StrV("pending_cool")} ->
         Return(COOL)
    [] OTHER -> Return(OFF)

(* zone_conditioning_const with pending_heat left out of the heat case. *)
zone_conditioning_constNoPendingHeat(zone) ==
  CASE zone["conditioning"] \in {StrV("active_heat"), StrV("prep_heat")} ->
         Return(HEAT)
    [] zone["conditioning"] \in
         {StrV("active_cool"), StrV("prep_cool"), StrV("pending_cool")} ->
         Return(COOL)
    [] zone["conditioning"] = StrV("idle") -> Return(OFF)
    [] OTHER -> Raise("ValueError", Show(zone["conditioning"]))

zone_conditioning_const(zone) ==
  CASE zone["conditioning"] \in
         {StrV("active_heat"), StrV("prep_heat"), StrV("pending_heat")} ->
         Return(HEAT)
    [] zone["conditioning"] \in
         {StrV("active_cool"), StrV("prep_cool"), StrV("pending_cool")} ->
         Return(COOL)
    [] zone["conditioning"] = StrV("idle") -> Return(OFF)
    [] OTHER -> Raise("ValueError", Show(zone["conditioning"]))

StatusZone__repr__(zone) ==
  [ id |-> zone["api_id"],
    name |-> zone["name"],
    current_activity |-> StrV(zone["current_activity"].s),
    temperature |-> zone["temperature"],
    humidity |-> zone["humidity"],
    fan |-> StrV(zone["fan"].s),
    hold |-> zone["hold"],
    occupancy |-> zone["occupancy"],
    hold_until |-> zone["hold_until"],
    heat_set_point |-> zone["heat_set_point"],
    cool_set_point |-> zone["cool_set_point"],
    conditioning |-> zone["conditioning"] ]

-----------------------------------------------------------------------------
(* StatusODU, StatusIDU *)

StatusODUStmts ==
  << Get("type", <<"type">>, "str"),
     Get("operational_status", <<"opstat">>, "str"),
     Get("idu_cfm", <<"iducfm">>, "int"),
     Get("odu_coil_temp", <<"oducoiltmp">>, "float"),
     Get("blower_rpm", <<"blwrpm">>, "int"),
     Get("line_voltage", <<"linevolt">>, "int"),
     Get("compressor_rpm", <<"comprpm">>, "int"),
     Get("suction_pressure", <<"suctpress">>, "int"),
     Get("suction_temp", <<"sucttemp">>, "float"),
     Get("suction_superheat", <<"suctsupheat">>, "float"),
     Get("discharge_temp", <<"dischargetmp">>, "float"),
     Get("exv_position", <<"exvpos">>, "int"),
     Get("ac_line_current", <<"aclinecurrent">>, "float"),
     Get("dc_bus_voltage", <<"dcbusvoltage">>, "float"),
     Get("discharge_pressure", <<"dischargepressure">>, "float"),
     Get("discharge_superheat", <<"dischargesuperheat">>, "float"),
     Get("ipm_temperature", <<"ipmtemperature">>, "float"),
     Get("pfcm_temperature", <<"pfcmtemperature">>, "float"),
     Get("outdoor_fan_rpm", <<"outdoorfanrpm">>, "int") >>

StatusODU(unit_raw) == BuildObj(StatusODUStmts, unit_raw, "raw" :> unit_raw)

StatusIDUStmts ==
  << Get("type", <<"type">>, "str"),
     Get("operational_status", <<"opstat">>, "str"),
     Get("airflow_cfm", <<"cfm">>, "int"),
     Get("static_pressure", <<"statpress">>, "float"),
     Get("blower_rpm", <<"blwrpm">>, "int") >>

StatusIDU(unit_raw) == BuildObj(StatusIDUStmts, unit_raw, "raw" :> unit_raw)

(* The telemetry attributes a unit's constructor sets. *)
UnitAttrs(stmts) == {stmts[i].attr : i \in 1..Len(stmts)}

(* The unit's __repr__: every telemetry attribute, without raw. *)
Unit__repr__(unit) == [a \in DOMAIN unit \ {"raw"} |-> unit[a]]

-----------------------------------------------------------------------------
(* Status *)

(* The class attributes: what an attribute the constructor never sets reads as. *)
StatusClassAttrs ==
  [ outdoor_temperature |-> None, mode |-> None, temperature_unit |-> None,
    filter_used |-> None, is_disconnected |-> None, airflow_cfm |-> None,
    blower_rpm |-> None, static_pressure |-> None, humidity_level |-> None,
    humidifier_on |-> None, uv_lamp_level |-> None,
    outdoor_unit_operational_status |-> None,
    indoor_unit_operational_status |-> None, time_stamp |-> None,
    zones |-> None ]

(* StatusStmts with the temperature unit read first. *)
StatusStmtsCfgemFirst ==
  << EnumOf("temperature_unit", "cfgem", "TemperatureUnits"),
     Get("outdoor_temperature", <<"oat">>, "float"),
     Get("mode", <<"mode">>, ""),
     Get("filter_used", <<"filtrlvl">>, "int"),
     Get("humidity_level", <<"humlvl">>, "int"),
     Other("humid", "humidifier_on", <<"humid">>),
     Get("uv_lamp_level", <<"uvlvl">>, "int"),
     Get("is_disconnected", <<"isDisconnected">>, "bool"),
     Get("airflow_cfm", <<"idu", "cfm">>, "int"),
     Get("blower_rpm", <<"idu", "blwrpm">>, "int"),
     Get("static_pressure", <<"idu", "statpress">>, "float"),
     Get("outdoor_unit_operational_status", <<"odu", "opstat">>, ""),
     Get("indoor_unit_operational_status", <<"idu", "opstat">>, ""),
     Other("time", "time_stamp", <<"utcTime">>),
     Other("zones", "zones", <<"zones">>),
     Other("odu", "odu", <<"odu">>),
     Other("idu", "idu", <<"idu">>) >>

(* The statements of Status.__init__ after self.raw = raw, in source order. *)
StatusStmts ==
  << Get("outdoor_temperature", <<"oat">>, "float"),
     Get("mode", <<"mode">>, ""),
     EnumOf("temperature_unit", "cfgem", "TemperatureUnits"),
     Get("filter_used", <<"filtrlvl">>, "int"),
     Get("humidity_level", <<"humlvl">>, "int"),
     Other("humid", "humidifier_on", <<"humid">>),
     Get("uv_lamp_level", <<"uvlvl">>, "int"),
     Get("is_disconnected", <<"isDisconnected">>, "bool"),
     Get("airflow_cfm", <<"idu", "cfm">>, "int"),
     Get("blower_rpm", <<"idu", "blwrpm">>, "int"),
     Get("static_pressure", <<"idu", "statpress">>, "float"),
     Get("outdoor_unit_operational_status", <<"odu", "opstat">>, ""),
     Get("indoor_unit_operational_status", <<"idu", "opstat">>, ""),
     Other("time", "time_stamp", <<"utcTime">>),
     Other("zones", "zones", <<"zones">>),
     Other("odu", "odu", <<"odu">>),
     Other("idu", "idu", <<"idu">>) >>

(* HumidGuard as a test for the key: if 'humid' in self.raw *)
HumidGuardKeyTest(json) == "humid" \in DOMAIN json.m

(* if self.raw.get('humid') is not None *)
HumidGuard(json) == DictGet(json, "humid", None) # None

(* self.humidifier_on = safely_get_json_value(self.raw, "humid", str) == 'on' *)
HumidValue(json) ==
  LET r == safely_get_json_value(json, <<"humid">>, "str")
  IN  IF r.exc # NoExc THEN r ELSE Return(BoolV(r.v = StrV("on")))

(* ZoneEnabled as a test for not being switched off. *)
ZoneEnabledUnlessOff(zone_json) ==
  safely_get_json_value(zone_json, <<"enabled">>, "").v # StrV("off")

(* if safely_get_json_value(zone_json, "enabled") == "on" *)
ZoneEnabled(zone_json) ==
  safely_get_json_value(zone_json, <<"enabled">>, "").v = StrV("on")

(* The body of the loop over self.raw["zones"], from self.zones = acc. *)
RECURSIVE ZoneLoop(_, _)
ZoneLoop(q, acc) ==
  IF q = <<>> THEN Return(acc)
  ELSE IF ZoneEnabled(Head(q))
       THEN LET z == StatusZone(Head(q))
            IN  IF z.exc # NoExc THEN z ELSE ZoneLoop(Tail(q), Append(acc, z.v))
       ELSE ZoneLoop(Tail(q), acc)

(* self.zones = []; for zone_json in self.raw["zones"]: ...                *)
(* Iterating None is a TypeError; the payloads hold a list or None there.  *)
BuildZones(json) ==
  LET item == Subscript(json, "zones")
  IN  IF item.exc # NoExc THEN item
      ELSE IF item.v.k # "list" THEN Raise("TypeError", Show(item.v))
      ELSE ZoneLoop(item.v.q, <<>>)

(* BuildODU with self.raw["odu"] instead of the get with a default. *)
BuildODUSubscript(json) ==
  LET item == Subscript(json, "odu")
  IN  IF item.exc # NoExc THEN item ELSE StatusODU(item.v)

(* self.odu = StatusODU(self.raw.get("odu", {})) *)
BuildODU(json) == StatusODU(DictGet(json, "odu", Dict(EmptyDict)))

(* self.idu = StatusIDU(self.raw.get("idu", {})) *)
BuildIDU(json) == StatusIDU(DictGet(json, "idu", Dict(EmptyDict)))

(* One statement of Status.__init__ on o = [self, exc, reads]: the path it *)
(* reads is logged, then the attribute is set or the exception kept.       *)
ExecStatus(st, o) ==
  LET json == o.self["raw"]
      skip == st.kind = "humid" /\ ~HumidGuard(json)
      r == CASE st.kind \in {"get", "eq", "enum"} -> Eval(st, json)
             [] st.kind = "humid" ->
                  (IF HumidGuard(json) THEN HumidValue(json) ELSE Return(None))
             [] st.kind = "time" ->
                  LET s == safely_get_json_value(json, st.path, "")
                  IN  IF s.exc # NoExc THEN s ELSE isoparse(s.v)
             [] st.kind = "zones" -> BuildZones(json)
             [] st.kind = "odu" -> BuildODU(json)
             [] st.kind = "idu" -> BuildIDU(json)
  IN  [ self |-> IF r.exc # NoExc \/ skip THEN o.self
                 ELSE SetAttr(o.self, st.attr, r.v),
        exc |-> r.exc,
        reads |-> Append(o.reads, st.path) ]

RECURSIVE RunStatus(_, _)
RunStatus(stmts, o) ==
  IF stmts = <<>> \/ o.exc # NoExc THEN o
  ELSE RunStatus(Tail(stmts), ExecStatus(Head(stmts), o))

(* Status.__init__(raw): the object, the exception raised (if any) and the *)
(* payload paths read, in order.                                           *)
Status__init__(json) ==
  RunStatus(StatusStmts,
            [ self |-> SetAttr(StatusClassAttrs, "raw", json),
              exc |-> NoExc, reads |-> <<>> ])

(* mode_const with OFF as the default instead of the raise. *)
mode_constDefaultOff(obj) ==
  CASE obj["mode"] \in {StrV("gasheat"), StrV("electric"), StrV("hpheat")} ->
         Return(HEAT)
    [] obj["mode"] = StrV("dehumidify") -> Return(COOL)
    [] OTHER -> Return(OFF)

(* mode_const with dehumidify in the heat case. *)
mode_constDehumidifyHeat(obj) ==
  CASE obj["mode"] \in {StrV("gasheat"), StrV("electric"), StrV("hpheat"),
                        StrV("dehumidify")} -> Return(HEAT)
    [] OTHER -> Raise("ValueError", Show(obj["mode"]))

mode_const(obj) ==
  CASE obj["mode"] \in {StrV("gasheat"), StrV("electric"), StrV("hpheat")} ->
         Return(HEAT)
    [] obj["mode"] = StrV("dehumidify") -> Return(COOL)
    [] OTHER -> Raise("ValueError", Show(obj["mode"]))

Status__repr__(obj) ==
  [ outdoor_temperature |-> obj["outdoor_temperature"],
    mode |-> obj["mode"],
    temperature_unit |-> StrV(obj["temperature_unit"].s),
    filter_used |-> obj["filter_used"],
    is_disconnected |-> obj["is_disconnected"],
    airflow_cfm |-> obj["airflow_cfm"],
    blower_rpm |-> obj["blower_rpm"],
    static_pressure |-> obj["static_pressure"],
    humidity_level |-> obj["humidity_level"],
    humidifier_on |-> obj["humidifier_on"],
    outdoor_unit_operational_status |-> obj["outdoor_unit_operational_status"],
    indoor_unit_operational_status |-> obj["indoor_unit_operational_status"],
    zones |-> [i \in 1..Len(obj["zones"]) |-> StatusZone__repr__(obj["zones"][i])],
    odu |-> Unit__repr__(obj["odu"]),
    idu |-> Unit__repr__(obj["idu"]) ]

-----------------------------------------------------------------------------
(* The payloads handed to the constructor *)

(* The most zone entries a payload holds. *)
MaxZones == 2

(* Marks a key the payload does not hold. *)
Absent == [k |-> "absent"]

(* The mapping with the keys of f that are not marked Absent. *)
Present(f) == [x \in {y \in DOMAIN f : f[y] # Absent} |-> f[x]]

ZoneBase ==
  [ enabled |-> StrV("on"), name |-> StrV("Zone"),
    currentActivity |-> StrV("home"), rt |-> StrV("72"), rh |-> StrV("50"),
    occupancy |-> StrV("occupied"), fan |-> StrV("low"), hold |-> StrV("on"),
    otmr |-> None, htsp |-> StrV("72"), clsp |-> StrV("72"),
    zoneconditioning |-> StrV("idle") ]

(* Zone entries: ZoneBase with some keys changed or removed. *)
ZoneChanges ==
  { [zoneconditioning |-> StrV(c)] :
      c \in {"active_heat", "prep_heat", "pending_heat", "active_cool",
             "prep_cool", "pending_cool", "idle", "frozen"} }
  \cup
  { [zoneconditioning |-> Absent],
    [enabled |-> StrV("off")],
    [enabled |-> Absent],
    [enabled |-> StrV("off"), fan |-> Absent],
    [fan |-> Absent],
    [fan |-> StrV("turbo")],
    [currentActivity |-> Absent],
    [currentActivity |-> StrV("party"), zoneconditioning |-> StrV("active_cool")] }

FewZoneChanges == { [enabled |-> StrV("on")], [enabled |-> StrV("off")] }

ZoneIdLit == <<"1", "2", "3", "4", "5", "6">>

(* The zone lists of up to MaxZones entries; entry i has id i. *)
ZoneLists(changes) ==
  { List([i \in DOMAIN f |->
            Dict(Present(("id" :> StrV(ZoneIdLit[i])) @@ f[i] @@ ZoneBase))]) :
      f \in UNION { [1..n -> changes] : n \in 0..MaxZones } }

IduFull ==
  Dict([ type |-> StrV("furnace"), opstat |-> StrV("off"), cfm |-> StrV("350"),
         statpress |-> StrV("0"), blwrpm |-> StrV("350") ])

OduFull ==
  Dict([ type |-> StrV("heatpump"), opstat |-> StrV("off"),
         iducfm |-> StrV("350"), oducoiltmp |-> StrV("72"),
         linevolt |-> StrV("350"), comprpm |-> StrV("0") ])

(* The optional level and connectivity fields: all absent, or all present. *)
Telemetry ==
  { [ filtrlvl |-> Absent, humlvl |-> Absent, uvlvl |-> Absent,
      isDisconnected |-> Absent ],
    [ filtrlvl |-> StrV("50"), humlvl |-> StrV("50"), uvlvl |-> StrV("50"),
      isDisconnected |-> BoolV(FALSE) ] }

ModeValues ==
  { Absent, None, StrV("gasheat"), StrV("electric"), StrV("hpheat"),
    StrV("dehumidify"), StrV("off") }

(* Payloads that vary the top-level fields, over a few zone lists. *)
TopVaried ==
  { Present(f @@ t) :
      f \in [ oat : {Absent, StrV("72"), StrV("bad")},
              mode : ModeValues,
              cfgem : {Absent, StrV("F"), StrV("K")},
              humid : {Absent, None, StrV("on"), StrV("off")},
              utcTime : {Absent, StrV("2024-01-01T00:00:00Z"), StrV("yesterday")},
              idu : {Absent, IduFull},
              odu : {Absent, OduFull},
              zones : {Absent, None} \cup ZoneLists(FewZoneChanges) ],
      t \in Telemetry }

(* Payloads that vary the zone entries, under well-formed top-level fields. *)
ZonesVaried ==
  { Present(f) :
      f \in [ oat : {StrV("72")},
              mode : {StrV("hpheat")},
              cfgem : {StrV("F")},
              humid : {StrV("off")},
              utcTime : {StrV("2024-01-01T00:00:00Z")},
              uvlvl : {StrV("50")},
              idu : {Absent, IduFull},
              odu : {Absent},
              zones : ZoneLists(ZoneChanges) ] }

Payloads == { Dict(m) : m \in TopVaried \cup ZonesVaried }

-----------------------------------------------------------------------------
(* The state machine: a caller constructs a Status from raw, and then reads *)
(* its properties.                                                          *)
(*   raw    the payload                                                     *)
(*   pc     "start", then "constructed" or "raised"                         *)
(*   self   the Status object (None while there is none)                    *)
(*   exc    the exception the constructor raised (NoExc if none)            *)
(*   reads  the payload paths the constructor read, in order                *)
(*   ret    the last property read: its name, the zone it was read on, and  *)
(*          the value returned or the exception raised                      *)

NoCall == [op |-> "", zone |-> 0, exc |-> NoExc, v |-> None]

Called(op, zone, r) == [op |-> op, zone |-> zone, exc |-> r.exc, v |-> r.v]

Init ==
  /\ raw \in Payloads
  /\ pc = "start"
  /\ self = None
  /\ exc = NoExc
  /\ reads = <<>>
  /\ ret = NoCall

(* status = Status(raw) *)
Construct ==
  /\ pc = "start"
  /\ LET o == Status__init__(raw)
     IN  /\ pc' = IF o.exc = NoExc THEN "constructed" ELSE "raised"
         /\ self' = IF o.exc = NoExc THEN o.self ELSE None
         /\ exc' = o.exc
         /\ reads' = o.reads
  /\ UNCHANGED <<raw, ret>>

(* status.mode_const *)
ModeConst ==
  /\ pc = "constructed"
  /\ ret' = Called("mode_const", 0, mode_const(self))
  /\ UNCHANGED <<raw, pc, self, exc, reads>>

(* status.zones[i].zone_conditioning_const *)
ZoneConditioningConst ==
  /\ pc = "constructed"
  /\ \E i \in 1..Len(self["zones"]) :
       ret' = Called("zone_conditioning_const", i,
                     zone_conditioning_const(self["zones"][i]))
  /\ UNCHANGED <<raw, pc, self, exc, reads>>

(* status.__repr__() *)
Repr ==
  /\ pc = "constructed"
  /\ ret' = Called("__repr__", 0, Return(Status__repr__(self)))
  /\ UNCHANGED <<raw, pc, self, exc, reads>>

Next == Construct \/ ModeConst \/ ZoneConditioningConst \/ Repr

Spec == Init /\ [][Next]_vars

-----------------------------------------------------------------------------
(* What the properties below read off the payload, stated on the payload   *)
(* alone.                                                                  *)

Has(d, key) == d.k = "dict" /\ key \in DOMAIN d.m

(* The value under key, None when the key is absent. *)
Field(d, key) == IF Has(d, key) THEN d.m[key] ELSE None

(* The zone entries of the payload, <<>> when it holds no list of them. *)
RawZones == IF Field(raw, "zones").k = "list" THEN Field(raw, "zones").q ELSE <<>>

IsOn(entry) == Field(entry, "enabled") = StrV("on")

(* The ids of the entries with enabled == "on", in payload order. *)
RECURSIVE OnIds(_)
OnIds(q) ==
  IF q = <<>> THEN <<>>
  ELSE IF IsOn(Head(q)) THEN <<Field(Head(q), "id")>> \o OnIds(Tail(q))
  ELSE OnIds(Tail(q))

(* The payload entry a constructed zone came from. *)
EntryOf(zone) ==
  CHOOSE e \in {RawZones[i] : i \in 1..Len(RawZones)} :
    Field(e, "id") = zone["api_id"]

ModeVocabulary ==
  {StrV("gasheat"), StrV("electric"), StrV("hpheat"), StrV("dehumidify")}

ConditioningVocabulary ==
  { StrV("active_heat"), StrV("prep_heat"), StrV("pending_heat"),
    StrV("active_cool"), StrV("prep_cool"), StrV("pending_cool"),
    StrV("idle") }

ActivityVocabulary ==
  { StrV(x) : x \in {"home", "away", "sleep", "wake", "manual", "vacation"} }

FanVocabulary == { StrV(x) : x \in {"off", "low", "med", "high"} }

(* A value float() and int() accept, or None. *)
Numeric(v) == v = None \/ (v.k = "str" /\ v.s \in {"0", "50", "72", "350"})

BadActivity(entry) == Field(entry, "currentActivity") \notin ActivityVocabulary

BadFan(entry) == Field(entry, "fan") \notin FanVocabulary

BadZone(entry) == IsOn(entry) /\ (BadActivity(entry) \/ BadFan(entry))

(* The top-level fields read before the zones are all acceptable. *)
HeadValid ==
  /\ Numeric(Field(raw, "oat"))
  /\ Field(raw, "cfgem") \in {StrV("C"), StrV("F")}
  /\ Field(raw, "utcTime") = StrV("2024-01-01T00:00:00Z")

(* The payload is acceptable apart from what it holds under idu and odu. *)
ValidBesidesUnits ==
  /\ HeadValid
  /\ Field(raw, "zones").k = "list"
  /\ \A i \in 1..Len(RawZones) : ~BadZone(RawZones[i])

KeyError(key) == [type |-> "KeyError", arg |-> key]

(* The exception the first bad enabled entry gives: its activity is looked *)
(* at before its fan.                                                      *)
BadZoneError(entry) ==
  IF BadActivity(entry)
  THEN IF Has(entry, "currentActivity")
       THEN [type |-> "ValueError", arg |-> Field(entry, "currentActivity").s]
       ELSE KeyError("currentActivity")
  ELSE IF Has(entry, "fan")
       THEN [type |-> "ValueError", arg |-> Field(entry, "fan").s]
       ELSE KeyError("fan")

FirstBadZone ==
  RawZones[CHOOSE i \in 1..Len(RawZones) :
             /\ BadZone(RawZones[i])
             /\ \A j \in 1..(i - 1) : ~BadZone(RawZones[j])]

-----------------------------------------------------------------------------
(* C1: a constructed Status holds exactly one zone per payload entry with  *)
(* enabled == "on", in payload order, and none for any other entry.        *)
C1_ZonesAreTheEnabledEntries ==
  pc = "constructed" =>
    /\ Len(self["zones"]) = Len(OnIds(RawZones))
    /\ \A i \in 1..Len(self["zones"]) :
         self["zones"][i]["api_id"] = OnIds(RawZones)[i]

(* Scenario A: an enabled entry followed by a disabled one gives one zone. *)
C1_Witness ==
  /\ pc = "constructed"
  /\ Len(RawZones) = 2
  /\ IsOn(RawZones[1]) /\ Field(RawZones[2], "enabled") = StrV("off")
  /\ Len(self["zones"]) = 1
  /\ self["zones"][1]["api_id"] = StrV("1")

(* C2, as claimed: without cfgem the constructor raises for cfgem having   *)
(* read no other field.                                                    *)
C2_CfgemFailsBeforeAnyOtherRead ==
  (pc # "start" /\ ~Has(raw, "cfgem")) =>
    /\ pc = "raised"
    /\ exc = KeyError("cfgem")
    /\ reads = << <<"cfgem">> >>

(* C2, amended: without cfgem the constructor always raises and reads      *)
(* nothing after cfgem, but oat and mode are read first: the KeyError for  *)
(* cfgem follows those two reads, unless oat cannot be coerced to float,   *)
(* and then that ValueError is raised and cfgem is never read.             *)
C2_CfgemFailsAfterOatAndMode ==
  (pc # "start" /\ ~Has(raw, "cfgem")) =>
    /\ pc = "raised"
    /\ IF Numeric(Field(raw, "oat"))
       THEN /\ exc = KeyError("cfgem")
            /\ reads = << <<"oat">>, <<"mode">>, <<"cfgem">> >>
       ELSE /\ exc = [type |-> "ValueError", arg |-> Field(raw, "oat").s]
            /\ reads = << <<"oat">> >>

C2_Witness ==
  /\ pc = "raised"
  /\ ~Has(raw, "cfgem")
  /\ Field(raw, "oat") = StrV("72")
  /\ exc = KeyError("cfgem")
  /\ reads = << <<"oat">>, <<"mode">>, <<"cfgem">> >>

(* C3, as claimed: no Status is constructed with a mode outside the        *)
(* vocabulary.                                                             *)
C3_ConstructedModeInVocabulary ==
  pc = "constructed" => self["mode"] \in ModeVocabulary

(* C3, amended: construction never fails on the mode, it stores the        *)
(* payload's mode as it is (None when missing or null); it is mode_const   *)
(* that raises ValueError for a mode that is missing, null or outside the  *)
(* vocabulary, so no classification is produced for such a Status.         *)
C3_ModeRejectedOnlyByModeConst ==
  /\ pc = "raised" => reads[Len(reads)] # <<"mode">>
  /\ pc = "constructed" => self["mode"] = Field(raw, "mode")
  /\ (ret.op = "mode_const" /\ self["mode"] \notin ModeVocabulary) =>
       ret.exc = [type |-> "ValueError", arg |-> Show(Field(raw, "mode"))]

C3_Witness ==
  /\ ret.op = "mode_const"
  /\ ~Has(raw, "mode")
  /\ self["mode"] = None
  /\ ret.exc.type = "ValueError"

(* C4, as claimed: every constructed zone has a conditioning value in the  *)
(* vocabulary.                                                             *)
C4_ConstructedConditioningInVocabulary ==
  pc = "constructed" =>
    \A i \in 1..Len(self["zones"]) :
      self["zones"][i]["conditioning"] \in ConditioningVocabulary

(* C4, amended: construction stores an enabled entry's zoneconditioning as *)
(* it is (None when absent) and does not fail on it; it is                 *)
(* zone_conditioning_const that raises ValueError for a value outside the  *)
(* vocabulary.                                                             *)
C4_ConditioningRejectedOnlyByProperty ==
  /\ pc = "constructed" =>
       \A i \in 1..Len(self["zones"]) :
         self["zones"][i]["conditioning"] =
           Field(EntryOf(self["zones"][i]), "zoneconditioning")
  /\ ret.op = "zone_conditioning_const" =>
       LET c == Field(EntryOf(self["zones"][ret.zone]), "zoneconditioning")
       IN  c \notin ConditioningVocabulary =>
             ret.exc = [type |-> "ValueError", arg |-> Show(c)]

C4_Witness ==
  /\ ret.op = "zone_conditioning_const"
  /\ ~Has(EntryOf(self["zones"][ret.zone]), "zoneconditioning")
  /\ self["zones"][ret.zone]["conditioning"] = None
  /\ ret.exc.type = "ValueError"

(* C5: mode_const gives HEAT for gasheat, electric and hpheat, COOL for    *)
(* dehumidify, and raises for every other mode; it never gives OFF.        *)
C5_ModeConstTable ==
  ret.op = "mode_const" =>
    LET m == Field(raw, "mode")
    IN  /\ m \in {StrV("gasheat"), StrV("electric"), StrV("hpheat")} =>
             ret.exc = NoExc /\ ret.v = HEAT
        /\ m = StrV("dehumidify") => ret.exc = NoExc /\ ret.v = COOL
        /\ m \notin ModeVocabulary => ret.exc.type = "ValueError"
        /\ ret.exc = NoExc => ret.v \in {HEAT, COOL}

C5_Witness ==
  /\ ret.op = "mode_const"
  /\ Field(raw, "mode") = StrV("dehumidify")
  /\ ret.v = COOL

(* C6: zone_conditioning_const depends on the conditioning string alone:   *)
(* the three heat strings give HEAT, the three cool strings COOL, idle     *)
(* OFF, and anything else (absent included) raises.                        *)
C6_ZoneConditioningTable ==
  ret.op = "zone_conditioning_const" =>
    LET c == Field(EntryOf(self["zones"][ret.zone]), "zoneconditioning")
    IN  /\ c \in {StrV("active_heat"), StrV("prep_heat"), StrV("pending_heat")}
             => ret.exc = NoExc /\ ret.v = HEAT
        /\ c \in {StrV("active_cool"), StrV("prep_cool"), StrV("pending_cool")}
             => ret.exc = NoExc /\ ret.v = COOL
        /\ c = StrV("idle") => ret.exc = NoExc /\ ret.v = OFF
        /\ c \notin ConditioningVocabulary =>
             ret.exc.type = "ValueError" /\ ret.v = None

(* Scenario E: conditioning "frozen" raises. *)
C6_Witness ==
  /\ ret.op = "zone_conditioning_const"
  /\ self["zones"][ret.zone]["conditioning"] = StrV("frozen")
  /\ ret.exc = [type |-> "ValueError", arg |-> "frozen"]

(* C7, as claimed: humidifier_on is None when humid is absent, and with    *)
(* humid present it is True for "on" and False otherwise.                  *)
C7_HumidifierOnWheneverHumidPresent ==
  pc = "constructed" =>
    self["humidifier_on"] =
      IF Has(raw, "humid") THEN BoolV(raw.m["humid"] = StrV("on")) ELSE None

(* C7, amended: humidifier_on is set only when humid is present and not    *)
(* null, True for "on" and False otherwise; with humid absent or null it   *)
(* stays None.                                                             *)
C7_HumidifierOnWheneverHumidNotNull ==
  pc = "constructed" =>
    self["humidifier_on"] =
      IF Field(raw, "humid") # None THEN BoolV(raw.m["humid"] = StrV("on"))
      ELSE None

(* Scenario C: humid "off" gives False. *)
C7_Witness ==
  /\ pc = "constructed"
  /\ Field(raw, "humid") = StrV("off")
  /\ self["humidifier_on"] = BoolV(FALSE)

(* The scalar attributes the constructor sets. *)
ScalarAttrs ==
  { "outdoor_temperature", "mode", "temperature_unit", "filter_used",
    "humidity_level", "humidifier_on", "uv_lamp_level", "is_disconnected",
    "airflow_cfm", "blower_rpm", "static_pressure",
    "outdoor_unit_operational_status", "indoor_unit_operational_status",
    "time_stamp" }

Unwrap(v) == IF v.k = "enum" THEN StrV(v.s) ELSE v

(* C8: __repr__ holds every scalar attribute the constructor set, with the *)
(* object's value, enums unwrapped.                                        *)
C8_ReprHoldsEveryScalar ==
  ret.op = "__repr__" =>
    \A a \in ScalarAttrs :
      a \in DOMAIN ret.v /\ ret.v[a] = Unwrap(self[a])

(* C9: with neither idu nor odu in an otherwise acceptable payload,        *)
(* construction succeeds and every telemetry attribute of both units is    *)
(* None.                                                                   *)
C9_AbsentUnitsGiveEmptySnapshots ==
  (pc # "start" /\ ValidBesidesUnits /\ ~Has(raw, "idu") /\ ~Has(raw, "odu")) =>
    /\ pc = "constructed"
    /\ UnitAttrs(StatusODUStmts) \subseteq DOMAIN self["odu"]
    /\ UnitAttrs(StatusIDUStmts) \subseteq DOMAIN self["idu"]
    /\ \A a \in UnitAttrs(StatusODUStmts) : self["odu"][a] = None
    /\ \A a \in UnitAttrs(StatusIDUStmts) : self["idu"][a] = None

C9_Witness ==
  /\ pc = "constructed"
  /\ ~Has(raw, "idu") /\ ~Has(raw, "odu")
  /\ self["odu"]["outdoor_fan_rpm"] = None
  /\ self["idu"]["airflow_cfm"] = None

(* C10: an enabled entry whose currentActivity or fan is missing or        *)
(* outside its vocabulary makes construction raise, whatever zones came    *)
(* before it: no Status is returned, and when the fields read before the   *)
(* zones are acceptable the exception is that of the first such entry.     *)
C10_BadEnabledZoneFailsConstruction ==
  (pc # "start" /\ \E i \in 1..Len(RawZones) : BadZone(RawZones[i])) =>
    /\ pc = "raised"
    /\ self = None
    /\ HeadValid => exc = BadZoneError(FirstBadZone)

C10_Witness ==
  /\ pc = "raised"
  /\ HeadValid
  /\ Len(RawZones) = 2
  /\ ~BadZone(RawZones[1]) /\ IsOn(RawZones[1])
  /\ Field(RawZones[2], "fan") = StrV("turbo")
  /\ exc = [type |-> "ValueError", arg |-> "turbo"]

=============================================================================
